---- MODULE Spec2Model ----
(***************************************************************************)
(* Model of the log ingestion driver (get_data.py) and of the partition    *)
(* discovery of the merger (process_data.py).                              *)
(*                                                                         *)
(* Strings of the program are tuples of one-character strings, so that the *)
(* regular expression search, int() and strptime() are computed and not    *)
(* assumed.  The empty tuple is the empty string; a start_date / end_date  *)
(* that is None is also the empty tuple, because the code only ever tests  *)
(* these arguments for truthiness (`not start_date`).                      *)
(***************************************************************************)
EXTENDS Integers, Sequences, FiniteSets, TLC

VARIABLES
    \* ---- the remote store and the arguments of download_save_json_logs
    listing,        \* container.list_blobs(): sequence of blob ids, in listing order
    start_date,     \* argument start_date
    end_date,       \* argument end_date
    max_retries,    \* argument max_retries
    \* ---- local variables of download_save_json_logs
    idx,            \* position of the for loop in the listing (1-based)
    cur_date,       \* cur_date
    df_logs,        \* df_logs (None or a table)
    attempt,        \* loop variable of the retry loop
    done,           \* done
    pc,             \* control point of the driver
    \* ---- durable storage under parquet_dir/container_name
    parquet,        \* key -> data.parquet of that date directory
    csv,            \* key -> data.csv of that date directory
    dirs,           \* existing directories (the empty key is the base directory)
    \* ---- observation of the run
    run,            \* number of the current call of download_save_json_logs
    raised,         \* exception that reached the outer handler ("none" if none)
    sleeps,         \* arguments of the sleep() calls made for the current blob
    fetches,        \* download attempts made for the current blob
    faults,         \* injected I/O failures so far
    openBase,       \* rows the durable partition held when it was last opened
    openSrc,        \* where the last open took its table from
    added,          \* rows appended since the last open
    openKeys,       \* keys opened and not yet flushed
    lastWrite,      \* outcome and key of the last call of save_logs_to_disk
    \* ---- application of a pure function
    op,             \* which function was applied
    arg,            \* its argument
    ret             \* its result

vars == <<listing, start_date, end_date, max_retries, idx, cur_date, df_logs,
          attempt, done, pc, parquet, csv, dirs, run, raised, sleeps, fetches,
          faults, openBase, openSrc, added, openKeys, lastWrite, op, arg, ret>>

driverVars == <<listing, start_date, end_date, max_retries, idx, cur_date,
                df_logs, attempt, done, pc, parquet, csv, dirs, run, raised,
                sleeps, fetches, faults, openBase, openSrc, added, openKeys,
                lastWrite>>

pureVars == <<op, arg, ret>>

(***************************************************************************)
(* Bounds                                                                  *)
(***************************************************************************)
MaxBlobs == 3       \* longest listing
MaxRetries == 2     \* largest max_retries tried
MaxFaults == 2      \* injected I/O failures per behaviour
MaxRuns == 2        \* calls of download_save_json_logs per behaviour
MaxSegs == 3        \* segments of a generated blob name

(***************************************************************************)
(* Strings                                                                 *)
(***************************************************************************)
Digits == {"0", "1", "2", "3", "4", "5", "6", "7", "8", "9"}

DigitVal(c) ==
    CASE c = "0" -> 0 [] c = "1" -> 1 [] c = "2" -> 2 [] c = "3" -> 3
      [] c = "4" -> 4 [] c = "5" -> 5 [] c = "6" -> 6 [] c = "7" -> 7
      [] c = "8" -> 8 [] c = "9" -> 9

IsDigits(s) == \A i \in 1..Len(s) : s[i] \in Digits

\* int(s) raises ValueError unless s is a non-empty string of digits
IntRaises(s) == s = <<>> \/ ~IsDigits(s)

RECURSIVE IntAcc(_, _, _)
IntAcc(s, i, acc) ==
    IF i > Len(s) THEN acc ELSE IntAcc(s, i + 1, acc * 10 + DigitVal(s[i]))

\* int(s) for a string of digits
IntOf(s) == IntAcc(s, 1, 0)

(***************************************************************************)
(* extract_date_from_name                                                  *)
(***************************************************************************)
\* the pattern y=(\d{4})/m=(\d{2})/d=(\d{2}) matches at position i
MatchAt(name, i) ==
    /\ i + 15 <= Len(name)
    /\ name[i] = "y" /\ name[i + 1] = "="
    /\ \A j \in 2..5 : name[i + j] \in Digits
    /\ name[i + 6] = "/" /\ name[i + 7] = "m" /\ name[i + 8] = "="
    /\ \A j \in 9..10 : name[i + j] \in Digits
    /\ name[i + 11] = "/" /\ name[i + 12] = "d" /\ name[i + 13] = "="
    /\ \A j \in 14..15 : name[i + j] \in Digits

RECURSIVE SearchFrom(_, _)
\* re.search: the leftmost position at which the pattern matches, 0 if none
SearchFrom(name, i) ==
    IF i + 15 > Len(name) THEN 0
    ELSE IF MatchAt(name, i) THEN i
    ELSE SearchFrom(name, i + 1)

\* (variant: the rightmost match instead of the leftmost)
RECURSIVE SearchLast(_, _)
SearchLast(name, i) ==
    IF i < 1 THEN 0
    ELSE IF MatchAt(name, i) THEN i
    ELSE SearchLast(name, i - 1)

extract_date_from_name_Last(name) ==
    LET i == SearchLast(name, Len(name))
    IN  IF i = 0 THEN <<>>
        ELSE SubSeq(name, i + 2, i + 5) \o SubSeq(name, i + 9, i + 10)
                 \o SubSeq(name, i + 14, i + 15)

\* extract_date_from_name: '' when nothing matches, else the three groups
extract_date_from_name(name) ==
    LET i == SearchFrom(name, 1)
    IN  IF i = 0 THEN <<>>
        ELSE SubSeq(name, i + 2, i + 5) \o SubSeq(name, i + 9, i + 10)
                 \o SubSeq(name, i + 14, i + 15)

(***************************************************************************)
(* is_valid_date_format                                                    *)
(***************************************************************************)
IsLeap(y) == (y % 4 = 0 /\ y % 100 # 0) \/ y % 400 = 0

DaysInMonth(y, m) ==
    IF m = 2 THEN (IF IsLeap(y) THEN 29 ELSE 28)
    ELSE IF m \in {4, 6, 9, 11} THEN 30 ELSE 31

\* datetime.strptime(s, '%Y%m%d') succeeds on the 8-digit string s
StrptimeOk(s) ==
    LET y == IntOf(SubSeq(s, 1, 4))
        m == IntOf(SubSeq(s, 5, 6))
        d == IntOf(SubSeq(s, 7, 8))
    IN  /\ y >= 1
        /\ m \in 1..12
        /\ d >= 1 /\ d <= DaysInMonth(y, m)

is_valid_date_format(date_str) ==
    /\ Len(date_str) = 8
    /\ IsDigits(date_str)
    /\ StrptimeOk(date_str)

(***************************************************************************)
(* The date-range filters                                                  *)
(***************************************************************************)
\* (variant: the end bound is not tested)
DriverFilterNoEnd(date, s, e) ==
    IF s # <<>> /\ (IntRaises(date) \/ IntRaises(s)) THEN "ValueError"
    ELSE IF s # <<>> /\ ~(IntOf(date) >= IntOf(s)) THEN "out"
    ELSE "in"

\* (variant: an exclusive start bound)
DriverFilterLoose(date, s, e) ==
    IF s # <<>> /\ (IntRaises(date) \/ IntRaises(s)) THEN "ValueError"
    ELSE IF s # <<>> /\ ~(IntOf(date) > IntOf(s)) THEN "out"
    ELSE IF e = <<>> THEN "in"
    ELSE IF IntRaises(date) \/ IntRaises(e) THEN "ValueError"
    ELSE IF IntOf(date) <= IntOf(e) THEN "in" ELSE "out"

\* get_data.py: the condition of the `if` that filters the blobs, with the
\* short-circuit evaluation of Python: "in", "out", or "ValueError" when an
\* int() that is evaluated raises.
DriverFilter(date, s, e) ==
    IF s # <<>> /\ (IntRaises(date) \/ IntRaises(s)) THEN "ValueError"
    ELSE IF s # <<>> /\ ~(IntOf(date) >= IntOf(s)) THEN "out"
    ELSE IF e = <<>> THEN "in"
    ELSE IF IntRaises(date) \/ IntRaises(e) THEN "ValueError"
    ELSE IF IntOf(date) <= IntOf(e) THEN "in" ELSE "out"

\* process_data.py: find_parquet_files keeps the .parquet files of the
\* directory named d
FindIncludes(d, s, e) ==
    IF s # <<>> /\ ~is_valid_date_format(s) THEN FALSE
    ELSE IF e # <<>> /\ ~is_valid_date_format(e) THEN FALSE
    ELSE /\ is_valid_date_format(d)
         /\ (s = <<>> \/ IntOf(d) >= IntOf(s))
         /\ (e = <<>> \/ IntOf(d) <= IntOf(e))

(***************************************************************************)
(* The remote store                                                        *)
(***************************************************************************)
K18 == <<"2", "0", "2", "4", "0", "6", "1", "8">>
K19 == <<"2", "0", "2", "4", "0", "6", "1", "9">>

\* the date segment y=YYYY/m=MM/d=DD of a blob name
DateSegment(k) ==
    <<"y", "=">> \o SubSeq(k, 1, 4) \o <<"/", "m", "=">> \o SubSeq(k, 5, 6)
        \o <<"/", "d", "=">> \o SubSeq(k, 7, 8)

BlobIds == {"A0", "A1", "B0", "U0"}

\* blob.name
BlobName(b) ==
    CASE b = "A0" -> <<"t", "/">> \o DateSegment(K18) \o <<"/", "0">>
      [] b = "A1" -> <<"t", "/">> \o DateSegment(K18) \o <<"/", "1">>
      [] b = "B0" -> <<"t", "/">> \o DateSegment(K19) \o <<"/", "0">>
      [] b = "U0" -> <<"t", "/", "y", "=", "2", "0", "2", "4", "/", "0">>

IntCell(n) == [t |-> "int", s |-> n]
StrCell(x) == [t |-> "str", s |-> x]
ListCell(x) == [t |-> "list", s |-> x]
DictCell(f) == [t |-> "dict", f |-> f]

\* json.loads of each line of the blob's content
BlobLines(b) ==
    CASE b = "A0" -> << [id |-> IntCell("1"), p |-> DictCell([q |-> StrCell("x")])] >>
      [] b = "A1" -> << [id |-> IntCell("2"), tags |-> ListCell("[1, 2]")] >>
      [] b = "B0" -> << [id |-> IntCell("3")], [id |-> IntCell("4"), code |-> StrCell("007")] >>
      [] b = "U0" -> << [id |-> IntCell("5")] >>

\* the keys under which the driver can address durable storage
Keys == {extract_date_from_name(BlobName(b)) : b \in BlobIds}

(***************************************************************************)
(* Tables                                                                  *)
(***************************************************************************)
\* A table is the sequence of its rows; a row maps column names (paths of
\* field names) to cells; a column absent from a row is null in that row.
NoneDF == [none |-> TRUE, rows |-> <<>>]
DataFrame(rows) == [none |-> FALSE, rows |-> rows]

RECURSIVE Paths(_)
Paths(rec) ==
    UNION { IF rec[k].t = "dict"
            THEN { <<k>> \o q : q \in Paths(rec[k].f) }
            ELSE { <<k>> } : k \in DOMAIN rec }

RECURSIVE Lookup(_, _)
Lookup(rec, path) ==
    IF Len(path) = 1 THEN rec[path[1]] ELSE Lookup(rec[path[1]].f, Tail(path))

\* pd.json_normalize(json_data): nested records become dotted columns
json_normalize(rec) == [c \in Paths(rec) |-> Lookup(rec, c)]

RECURSIVE NormalizeAll(_)
NormalizeAll(lines) ==
    IF lines = <<>> THEN <<>>
    ELSE <<json_normalize(Head(lines))>> \o NormalizeAll(Tail(lines))

\* the loop over blob_data.splitlines(): pd.concat([df_logs, df_data]);
\* pd.concat drops a None
AppendLines(df, lines) == DataFrame(df.rows \o NormalizeAll(lines))

\* what pd.read_csv gives back for a cell written by to_csv: a list comes
\* back as its text, a string of digits as a number
CsvCell(c) ==
    IF c.t = "list" THEN StrCell(c.s)
    ELSE IF c.t = "str" /\ c.s = "007" THEN IntCell("7")
    ELSE c

CsvRows(rows) == [i \in 1..Len(rows) |-> [c \in DOMAIN rows[i] |-> CsvCell(rows[i][c])]]

(***************************************************************************)
(* Durable storage                                                         *)
(***************************************************************************)
NoFile == [exists |-> FALSE, rows |-> <<>>]
File(rows) == [exists |-> TRUE, rows |-> rows]

WriteOutcomes == {"ok", "csv_error", "parquet_error"}

\* save_logs_to_disk: the files after the call, by outcome.  to_csv runs
\* first; an exception in either write is caught and ends the call.
save_logs_csv(date, df, outcome) ==
    IF outcome = "csv_error" THEN csv
    ELSE [csv EXCEPT ![date] = File(CsvRows(df.rows))]

\* (variant: no handler around the writes)
save_logs_raised_Uncaught(outcome) == IF outcome = "ok" THEN "none" ELSE "write"

\* the exception that leaves save_logs_to_disk: its handler catches them all
save_logs_raised(outcome) == "none"

save_logs_parquet(date, df, outcome) ==
    IF outcome = "ok" THEN [parquet EXCEPT ![date] = File(df.rows)]
    ELSE parquet

\* what the durable partition of a key holds
DurableRows(date) ==
    IF parquet[date].exists THEN parquet[date].rows
    ELSE IF csv[date].exists THEN csv[date].rows
    ELSE <<>>

\* where load_or_create_dataframe takes the table from when nothing fails
LoadSource(date) ==
    IF date \in dirs
    THEN IF parquet[date].exists THEN "parquet"
         ELSE IF csv[date].exists THEN "csv"
         ELSE "new"
    ELSE "mkdir"

\* (variant: a load that always starts from an empty table)
load_or_create_dataframe_Empty(date, ok) == DataFrame(<<>>)

\* load_or_create_dataframe: the table returned
load_or_create_dataframe(date, ok) ==
    IF ~ok THEN DataFrame(<<>>)
    ELSE IF LoadSource(date) = "parquet" THEN DataFrame(parquet[date].rows)
    ELSE IF LoadSource(date) = "csv" THEN DataFrame(csv[date].rows)
    ELSE DataFrame(<<>>)

RECURSIVE Pow2(_)
Pow2(n) == IF n = 0 THEN 1 ELSE 2 * Pow2(n - 1)

\* (variant: a backoff that grows linearly)
BackoffLinear(a) == 2 * a

\* sleep(2**attempt)
Backoff(a) == Pow2(a)

\* `if attempt < max_retries - 1` of the retry loop: sleep and retry, or raise
RetriesLeft(a, m) == a < m - 1

\* (variant: a handler that saves the open table)
HandlerParquetFlushing ==
    IF cur_date # <<>> /\ ~df_logs.none
    THEN [parquet EXCEPT ![cur_date] = File(df_logs.rows)]
    ELSE parquet

\* data.parquet of every key when the outer handler of
\* download_save_json_logs returns: the handler only logs
HandlerParquet == parquet

(***************************************************************************)
(* download_save_json_logs                                                 *)
(***************************************************************************)
RECURSIVE InjSeqs(_, _)
\* the sequences of at most n distinct elements of S
InjSeqs(S, n) ==
    IF n = 0 THEN {<<>>}
    ELSE LET shorter == InjSeqs(S, n - 1)
         IN  shorter \cup
             UNION { { Append(q, x) : x \in S \ {q[i] : i \in 1..Len(q)} } :
                     q \in shorter }

Listings == InjSeqs(BlobIds, MaxBlobs)

StartChoices == {<<>>, K19}
EndChoices == {<<>>, K18}

NoWrite == [key |-> <<>>, outcome |-> "none", n |-> 0]

PureIdle == op = "none" /\ arg = <<>> /\ ret = <<>>

\* the state in which a call of download_save_json_logs starts
Locals0 ==
    /\ idx = 1
    /\ cur_date = <<>>
    /\ df_logs = NoneDF
    /\ attempt = 0
    /\ done = 0
    /\ pc = "iter"

Init ==
    /\ listing \in Listings
    /\ start_date \in StartChoices
    /\ end_date \in EndChoices
    /\ max_retries \in 1..MaxRetries
    /\ Locals0
    /\ parquet = [k \in Keys |-> NoFile]
    /\ csv = [k \in Keys |-> NoFile]
    /\ dirs = {}
    /\ run = 1
    /\ raised = "none"
    /\ sleeps = <<>>
    /\ fetches = 0
    /\ faults = 0
    /\ openBase = <<>>
    /\ openSrc = "none"
    /\ added = <<>>
    /\ openKeys = <<>>
    /\ lastWrite = NoWrite
    /\ PureIdle

\* the blob the for loop is at, and its date
CurBlob == listing[idx]
CurDate == extract_date_from_name(BlobName(CurBlob))

\* lines 162-170: take the next blob, extract its date, filter it, and see
\* whether the date changed
Iterate ==
    /\ pc = "iter"
    /\ IF idx > Len(listing)
       THEN /\ pc' = "final"
            /\ UNCHANGED <<idx, raised, attempt, sleeps, fetches>>
       ELSE LET f == DriverFilter(CurDate, start_date, end_date)
            IN  /\ raised' = IF f = "ValueError" THEN "ValueError" ELSE "none"
                /\ idx' = IF f = "out" THEN idx + 1 ELSE idx
                /\ pc' = IF f = "ValueError" THEN "aborted"
                         ELSE IF f = "out" THEN "iter"
                         ELSE IF cur_date = CurDate THEN "fetch"
                         ELSE IF cur_date # <<>> /\ ~df_logs.none THEN "flush"
                         ELSE "load"
                /\ attempt' = 0
                /\ sleeps' = <<>>
                /\ fetches' = 0
    /\ parquet' = IF pc' = "aborted" THEN HandlerParquet ELSE parquet
    /\ UNCHANGED <<listing, start_date, end_date, max_retries, cur_date,
                   df_logs, done, csv, dirs, run, faults, openBase,
                   openSrc, added, openKeys, lastWrite, pureVars>>

\* the outcomes a call of save_logs_to_disk for the date can have
CanWrite(date, outcome) ==
    IF date \in dirs THEN outcome = "ok" \/ faults < MaxFaults
    ELSE outcome = "csv_error"

RECURSIVE Without(_, _)
Without(q, x) ==
    IF q = <<>> THEN <<>>
    ELSE IF Head(q) = x THEN Without(Tail(q), x)
    ELSE <<Head(q)>> \o Without(Tail(q), x)

\* save_logs_to_disk(base_dir, cur_date, df_logs) with the given outcome
Save(outcome) ==
    /\ csv' = save_logs_csv(cur_date, df_logs, outcome)
    /\ parquet' = save_logs_parquet(cur_date, df_logs, outcome)
    /\ raised' = save_logs_raised(outcome)
    /\ lastWrite' = [key |-> cur_date, outcome |-> outcome, n |-> lastWrite.n + 1]
    /\ openKeys' = Without(openKeys, cur_date)
    /\ faults' = IF outcome # "ok" /\ cur_date \in dirs THEN faults + 1 ELSE faults

\* lines 172-173: the date changed, save the table of the old date
Flush ==
    /\ pc = "flush"
    /\ \E outcome \in WriteOutcomes :
        /\ CanWrite(cur_date, outcome)
        /\ Save(outcome)
    /\ pc' = IF raised' = "none" THEN "load" ELSE "aborted"
    /\ UNCHANGED <<listing, start_date, end_date, max_retries, idx, cur_date,
                   df_logs, attempt, done, dirs, run, sleeps, fetches,
                   openBase, openSrc, added, pureVars>>

\* whether the call of load_or_create_dataframe for the date can fail: only
\* read_parquet, read_csv and makedirs can raise
CanLoad(date, ok) ==
    ok \/ (faults < MaxFaults /\ LoadSource(date) # "new")

\* lines 176-178: load the table of the new date
Load ==
    /\ pc = "load"
    /\ \E ok \in BOOLEAN :
        /\ CanLoad(CurDate, ok)
        /\ df_logs' = load_or_create_dataframe(CurDate, ok)
        /\ dirs' = IF ok /\ LoadSource(CurDate) = "mkdir"
                   THEN dirs \cup {CurDate, <<>>} ELSE dirs
        /\ openSrc' = IF ok THEN LoadSource(CurDate) ELSE "error"
        /\ faults' = IF ok THEN faults ELSE faults + 1
    /\ cur_date' = CurDate
    /\ openBase' = DurableRows(CurDate)
    /\ added' = <<>>
    /\ openKeys' = Append(openKeys, CurDate)
    /\ pc' = "fetch"
    /\ UNCHANGED <<listing, start_date, end_date, max_retries, idx, attempt,
                   done, parquet, csv, run, raised, sleeps, fetches,
                   lastWrite, pureVars>>

\* lines 181-185 and 193-200: an attempt succeeds; the lines of the blob are
\* decoded and appended
FetchOk ==
    /\ pc = "fetch"
    /\ attempt < max_retries
    /\ fetches' = fetches + 1
    /\ df_logs' = AppendLines(df_logs, BlobLines(CurBlob))
    /\ added' = added \o NormalizeAll(BlobLines(CurBlob))
    /\ done' = done + 1
    /\ idx' = idx + 1
    /\ pc' = "iter"
    /\ UNCHANGED <<listing, start_date, end_date, max_retries, cur_date,
                   attempt, parquet, csv, dirs, run, raised, sleeps, faults,
                   openBase, openSrc, openKeys, lastWrite,
                   pureVars>>

\* lines 186-191: an attempt fails; sleep and retry, or raise to the outer
\* handler (lines 208-209)
FetchFail ==
    /\ pc = "fetch"
    /\ attempt < max_retries
    /\ faults < MaxFaults
    /\ fetches' = fetches + 1
    /\ faults' = faults + 1
    /\ IF RetriesLeft(attempt, max_retries)
       THEN /\ sleeps' = Append(sleeps, Backoff(attempt))
            /\ attempt' = attempt + 1
            /\ UNCHANGED <<pc, raised, parquet>>
       ELSE /\ raised' = "fetch"
            /\ pc' = "aborted"
            /\ parquet' = HandlerParquet
            /\ UNCHANGED <<sleeps, attempt>>
    /\ UNCHANGED <<listing, start_date, end_date, max_retries, idx, cur_date,
                   df_logs, done, csv, dirs, run, openBase, openSrc, added,
                   openKeys, lastWrite, pureVars>>

\* lines 202-206: the listing is exhausted, save the last table
FinalFlush ==
    /\ pc = "final"
    /\ IF cur_date # <<>> /\ ~df_logs.none
       THEN \E outcome \in WriteOutcomes :
              /\ CanWrite(cur_date, outcome)
              /\ Save(outcome)
       ELSE UNCHANGED <<csv, parquet, raised, lastWrite, openKeys, faults>>
    /\ pc' = IF raised' = "none" THEN "done" ELSE "aborted"
    /\ UNCHANGED <<listing, start_date, end_date, max_retries, idx, cur_date,
                   df_logs, attempt, done, dirs, run, sleeps, fetches,
                   openBase, openSrc, added, pureVars>>

\* the function is called again, on the same container, with any bounds
StartRun ==
    /\ pc \in {"done", "aborted"}
    /\ run < MaxRuns
    /\ run' = run + 1
    /\ start_date' \in StartChoices
    /\ end_date' \in EndChoices
    /\ idx' = 1
    /\ cur_date' = <<>>
    /\ df_logs' = NoneDF
    /\ attempt' = 0
    /\ done' = 0
    /\ pc' = "iter"
    /\ raised' = "none"
    /\ sleeps' = <<>>
    /\ fetches' = 0
    /\ openBase' = <<>>
    /\ openSrc' = "none"
    /\ added' = <<>>
    /\ openKeys' = <<>>
    /\ lastWrite' = NoWrite
    /\ UNCHANGED <<listing, max_retries, parquet, csv, dirs, faults, pureVars>>

Next ==
    \/ Iterate
    \/ Flush
    \/ Load
    \/ FetchOk
    \/ FetchFail
    \/ FinalFlush
    \/ StartRun

Spec == Init /\ [][Next]_vars

(***************************************************************************)
(* extract_date_from_name applied to generated names                       *)
(***************************************************************************)
Segments ==
    { DateSegment(K18),
      DateSegment(<<"1", "9", "9", "9", "1", "2", "3", "1">>),
      <<"y", "=", "2", "0", "2", "4", "/", "m", "=", "0", "6">>,
      <<"/", "d", "=", "1", "8">>,
      <<"/", "d", "=", "1">>,
      <<"8">>,
      <<"a", "/">>,
      <<"y", "=", "2", "0">>,
      <<"2", "4", "/", "m", "=", "0", "6">> }

RECURSIVE NamesOf(_)
\* the names made of at most n segments
NamesOf(n) ==
    IF n = 0 THEN {<<>>}
    ELSE LET shorter == NamesOf(n - 1)
         IN  shorter \cup { q \o g : q \in shorter, g \in Segments }

\* the state of a driver that is not running
DriverIdle ==
    /\ listing = <<>>
    /\ start_date = <<>>
    /\ end_date = <<>>
    /\ max_retries = 1
    /\ idx = 1
    /\ cur_date = <<>>
    /\ df_logs = NoneDF
    /\ attempt = 0
    /\ done = 0
    /\ pc = "idle"
    /\ parquet = [k \in Keys |-> NoFile]
    /\ csv = [k \in Keys |-> NoFile]
    /\ dirs = {}
    /\ run = 0
    /\ raised = "none"
    /\ sleeps = <<>>
    /\ fetches = 0
    /\ faults = 0
    /\ openBase = <<>>
    /\ openSrc = "none"
    /\ added = <<>>
    /\ openKeys = <<>>
    /\ lastWrite = NoWrite

InitExtract ==
    /\ DriverIdle
    /\ op = "none"
    /\ arg \in NamesOf(MaxSegs)
    /\ ret = <<>>

Extract ==
    /\ op = "none"
    /\ op' = "extract_date_from_name"
    /\ ret' = extract_date_from_name(arg)
    /\ UNCHANGED <<arg, driverVars>>

NextExtract == Extract

SpecExtract == InitExtract /\ [][NextExtract]_vars

(***************************************************************************)
(* The date-range filters applied to keys and bounds                       *)
(***************************************************************************)
FilterKeys ==
    { <<"2", "0", "2", "4", "0", "6", "1", "7">>, K18, K19,
      <<"2", "0", "2", "4", "0", "6", "3", "1">>,
      <<"2", "0", "2", "3", "0", "2", "2", "9">>,
      <<"0", "0", "0", "0", "0", "6", "1", "8">> }

FilterBounds ==
    { <<>>, K18, K19,
      <<"2", "0", "2", "4", "0", "6", "3", "1">>,
      <<"2", "0", "2", "4">> }

InitFilter ==
    /\ DriverIdle
    /\ op = "none"
    /\ arg \in [k : FilterKeys, s : FilterBounds, e : FilterBounds]
    /\ ret = "none"

\* the filter of download_save_json_logs on a blob of date arg.k
ApplyDriverFilter ==
    /\ op = "none"
    /\ op' = "download_save_json_logs"
    /\ ret' = DriverFilter(arg.k, arg.s, arg.e)
    /\ UNCHANGED <<arg, driverVars>>

\* find_parquet_files on a date directory named arg.k that holds data.parquet
ApplyFindFilter ==
    /\ op = "none"
    /\ op' = "find_parquet_files"
    /\ ret' = IF FindIncludes(arg.k, arg.s, arg.e) THEN "in" ELSE "out"
    /\ UNCHANGED <<arg, driverVars>>

NextFilter == ApplyDriverFilter \/ ApplyFindFilter

SpecFilter == InitFilter /\ [][NextFilter]_vars

(***************************************************************************)
(* Properties                                                              *)
(***************************************************************************)
RECURSIVE RecordsOf(_, _, _, _)
\* the rows of the blobs of the listing q, in listing order, whose name
\* carries the date k and whose date lies within the bounds s, e
RecordsOf(q, k, s, e) ==
    IF q = <<>> THEN <<>>
    ELSE LET d == extract_date_from_name(BlobName(Head(q)))
             in == /\ d = k
                   /\ s = <<>> \/ IntOf(d) >= IntOf(s)
                   /\ e = <<>> \/ IntOf(d) <= IntOf(e)
         IN  (IF in THEN NormalizeAll(BlobLines(Head(q))) ELSE <<>>)
                 \o RecordsOf(Tail(q), k, s, e)

DateKeys == Keys \ {<<>>}

Routable(q) == \A i \in 1..Len(q) : extract_date_from_name(BlobName(q[i])) # <<>>

RunEnded == pc \in {"done", "aborted"}

\* C1: resume correctness.  When the table of a key was opened from the
\* durable partition (N rows), M records were appended and the flush
\* succeeded, the durable partition of the key holds exactly the N original
\* rows, unchanged, followed by the M new rows.
C1_Resume ==
    ( /\ pc \in {"load", "done"}
      /\ lastWrite.outcome = "ok"
      /\ lastWrite.key = cur_date
      /\ openSrc # "error" )
    => parquet[cur_date] = File(openBase \o added)

C1_Witness ==
    /\ pc = "done"
    /\ lastWrite.outcome = "ok"
    /\ lastWrite.key = cur_date
    /\ openSrc = "parquet"
    /\ Len(openBase) > 0
    /\ Len(added) > 0
    /\ Len(parquet[cur_date].rows) = Len(openBase) + Len(added)

\* C2: re-run idempotence.  After a failure-free run and a failure-free
\* second run without bounds (a superset of any range), every durable
\* partition holds the rows a single run without bounds gives: each record
\* of the listing once.
C2_Rerun ==
    ( /\ run = 2
      /\ pc = "done"
      /\ faults = 0
      /\ start_date = <<>>
      /\ end_date = <<>>
      /\ Routable(listing) )
    => \A k \in DateKeys : parquet[k].rows = RecordsOf(listing, k, <<>>, <<>>)

\* C3: out-of-order listing is safe.  At the end of a first run without
\* failure on empty storage the durable partition of every key holds the
\* records of all in-range objects of that key, each once, for any listing.
C3_OutOfOrder ==
    ( /\ run = 1
      /\ RunEnded
      /\ faults = 0 )
    => \A k \in DateKeys :
          parquet[k].rows = RecordsOf(listing, k, start_date, end_date)

\* C4: unroutable objects are skipped.  When the loop is at an object whose
\* name carries no date, the driver moves on to the next listed object
\* without opening a partition, fetching or appending, and without aborting,
\* whatever the bounds.
C4_Unroutable ==
    [][ ( /\ pc = "iter"
          /\ idx <= Len(listing)
          /\ CurDate = <<>> )
        => /\ pc' = "iter"
           /\ idx' = idx + 1
           /\ raised' = "none"
           /\ UNCHANGED <<cur_date, df_logs, done, parquet, csv, dirs, run>> ]_vars

\* C5: fetch exhaustion aborts the run.  The step on which the last fetch
\* attempt fails writes nothing to durable storage (the open table is not
\* flushed, earlier flushed partitions keep their content) and processes
\* nothing, and after it the run takes no further step: no later object is
\* processed.
C5_FetchAbort ==
    [][ /\ (pc = "fetch" /\ pc' = "aborted")
            => /\ raised' = "fetch"
               /\ UNCHANGED <<parquet, csv, dirs, idx, done, cur_date, df_logs>>
        /\ pc = "aborted" => run' = run + 1 ]_vars

C5_Witness ==
    /\ pc = "aborted"
    /\ raised = "fetch"
    /\ Len(added) > 0
    /\ idx < Len(listing)
    /\ \E k \in DateKeys : k # cur_date /\ parquet[k].exists
    /\ parquet[cur_date].rows # openBase \o added

C7_FlushFailure ==
    [][ ( /\ lastWrite'.n > lastWrite.n
          /\ lastWrite'.outcome # "ok" )
        => /\ raised' = "none"
           /\ pc' = IF pc = "flush" THEN "load" ELSE "done" ]_vars

C7_Witness ==
    /\ lastWrite.outcome \in {"csv_error", "parquet_error"}
    /\ pc = "done"
    /\ raised = "none"
    /\ cur_date # lastWrite.key
    /\ Len(added) > 0
    /\ idx > Len(listing)

\* C8: flush ordering.  In a run without failure every opened partition is
\* flushed before the next one is loaded and before the run ends: at most
\* one key is open, none when a partition is about to be loaded, none when
\* the run has ended.
C8_FlushOrder ==
    faults = 0
    => /\ Len(openKeys) <= 1
       /\ pc = "load" => openKeys = <<>>
       /\ RunEnded => openKeys = <<>>

\* Whether the 8-digit key k lies within the bounds, by integer comparison
WithinBounds(k, s, e) ==
    /\ s = <<>> \/ IntOf(k) >= IntOf(s)
    /\ e = <<>> \/ IntOf(k) <= IntOf(e)

EightDigits(x) == Len(x) = 8 /\ \A i \in 1..8 : x[i] \in Digits

MonthDays == <<31, 28, 31, 30, 31, 30, 31, 31, 30, 31, 30, 31>>

\* x is YYYYMMDD for a day of the calendar
CalendarDate(x) ==
    /\ EightDigits(x)
    /\ LET y == IntOf(SubSeq(x, 1, 4))
           m == IntOf(SubSeq(x, 5, 6))
           d == IntOf(SubSeq(x, 7, 8))
           leap == y % 400 = 0 \/ (y % 4 = 0 /\ y % 100 # 0)
       IN  /\ y \in 1..9999
           /\ m \in 1..12
           /\ d >= 1
           /\ d <= (IF m = 2 /\ leap THEN 29 ELSE MonthDays[m])

BoundsStated == /\ arg.s = <<>> \/ EightDigits(arg.s)
                /\ arg.e = <<>> \/ EightDigits(arg.e)

\* C9 as stated: in the driver and in find_parquet_files alike, an 8-digit
\* key is included iff it lies within the bounds, for all 8-digit bounds.
C9_AsStated ==
    (op # "none" /\ BoundsStated)
    => (ret = "in" <=> WithinBounds(arg.k, arg.s, arg.e))

\* C9 amended: the driver includes an 8-digit key iff it lies within the
\* (absent or 8-digit) bounds, both inclusive; find_parquet_files includes
\* it iff moreover the key is a calendar date and each given bound is a
\* calendar date.
C9_Filter ==
    /\ (op = "download_save_json_logs" /\ BoundsStated)
        => /\ ret \in {"in", "out"}
           /\ ret = "in" <=> WithinBounds(arg.k, arg.s, arg.e)
    /\ (op = "find_parquet_files" /\ BoundsStated)
        => /\ ret \in {"in", "out"}
           /\ ret = "in" <=> /\ CalendarDate(arg.k)
                             /\ arg.s = <<>> \/ CalendarDate(arg.s)
                             /\ arg.e = <<>> \/ CalendarDate(arg.e)
                             /\ WithinBounds(arg.k, arg.s, arg.e)

C9_Witness ==
    /\ op = "download_save_json_logs"
    /\ arg.k = K19
    /\ arg.s = K19
    /\ arg.e = K19
    /\ ret = "in"

\* the pattern y=YYYY/m=MM/d=DD stands at position i of the name
DateAt(name, i) ==
    /\ i >= 1 /\ i + 15 <= Len(name)
    /\ SubSeq(name, i, i + 1) = <<"y", "=">>
    /\ IsDigits(SubSeq(name, i + 2, i + 5))
    /\ SubSeq(name, i + 6, i + 8) = <<"/", "m", "=">>
    /\ IsDigits(SubSeq(name, i + 9, i + 10))
    /\ SubSeq(name, i + 11, i + 13) = <<"/", "d", "=">>
    /\ IsDigits(SubSeq(name, i + 14, i + 15))

\* C10: the date extractor.  For a name that contains y=YYYY/m=MM/d=DD the
\* result is the 8 characters YYYYMMDD of the first occurrence; for a name
\* that does not, the result is the empty string.
C10_Extract ==
    op = "extract_date_from_name"
    => IF \E i \in 1..Len(arg) : DateAt(arg, i)
       THEN \E i \in 1..Len(arg) :
              /\ DateAt(arg, i)
              /\ \A j \in 1..(i - 1) : ~DateAt(arg, j)
              /\ Len(ret) = 8
              /\ ret = <<arg[i + 2], arg[i + 3], arg[i + 4], arg[i + 5],
                         arg[i + 9], arg[i + 10], arg[i + 14], arg[i + 15]>>
       ELSE ret = <<>>

C10_Witness ==
    /\ op = "extract_date_from_name"
    /\ ret = K18
    /\ \E i, j \in 1..Len(arg) :
          /\ i < j
          /\ DateAt(arg, i)
          /\ DateAt(arg, j)
          /\ SubSeq(arg, j + 2, j + 5) # SubSeq(arg, i + 2, i + 5)

(***************************************************************************)
(* Tables with nested values (process_data.py)                             *)
(*                                                                         *)
(* A cell is a scalar (IntCell, StrCell), a record (DictCell), a Python    *)
(* list (PyList) or a numpy array (NdArray: what read_parquet returns for  *)
(* a list).  NaN is the absence of the column from the row, so the empty   *)
(* function <<>> is a row of NaN only.                                     *)
(***************************************************************************)
NullCell == [t |-> "null"]
PyList(v) == [t |-> "pylist", v |-> v]
NdArray(v) == [t |-> "ndarray", v |-> v]

\* row[column], NaN when the row has no value there
Cell(row, c) == IF c \in DOMAIN row THEN row[c] ELSE NullCell

\* isinstance(x, (list, np.ndarray))
IsListValue(c) == c.t \in {"pylist", "ndarray"}

RECURSIVE SetToSeq(_)
SetToSeq(S) ==
    IF S = {} THEN <<>>
    ELSE LET x == CHOOSE y \in S : TRUE IN <<x>> \o SetToSeq(S \ {x})

\* DataFrame.explode on one value: a list-like gives its elements, an empty
\* list-like gives NaN, anything else stays; a dict is list-like to pandas
\* and gives its keys
ExplodeCell(c) ==
    IF IsListValue(c) THEN (IF c.v = <<>> THEN <<NullCell>> ELSE c.v)
    ELSE IF c.t = "dict"
         THEN (IF DOMAIN c.f = {} THEN <<NullCell>>
               ELSE [i \in 1..Cardinality(DOMAIN c.f) |->
                        StrCell(SetToSeq(DOMAIN c.f)[i])])
    ELSE <<c>>

\* the row without the column
DropColumn(row, c) == [k \in DOMAIN row \ {c} |-> row[k]]

RECURSIVE ExplodeRows(_, _)
\* df.explode(column, ignore_index=True): per exploded row, the row it comes
\* from (src), its other columns (sib) and its element (elem)
ExplodeRows(df, c) ==
    IF df = <<>> THEN <<>>
    ELSE LET row == df[Len(df)]
             es == ExplodeCell(Cell(row, c))
         IN  ExplodeRows(SubSeq(df, 1, Len(df) - 1), c)
                 \o [j \in 1..Len(es) |->
                        [src |-> Len(df), sib |-> DropColumn(row, c), elem |-> es[j]]]

RECURSIVE Truth(_)
\* bool(x) as the `and json_data` of flatten_json evaluates it: "true",
\* "false", or "raise" for an array of more than one element
Truth(c) ==
    IF c.t = "pylist" THEN (IF c.v = <<>> THEN "false" ELSE "true")
    ELSE IF c.t = "ndarray"
         THEN (IF Len(c.v) = 0 THEN "false"
               ELSE IF Len(c.v) = 1 THEN Truth(c.v[1])
               ELSE "raise")
    ELSE IF c.t = "dict" THEN (IF DOMAIN c.f = {} THEN "false" ELSE "true")
    ELSE "true"

\* json_data.columns = [f"{column}.{col}" ...]
PrefixRow(c, r) ==
    [p \in {c \o q : q \in DOMAIN r} |-> r[SubSeq(p, Len(c) + 1, Len(p))]]

\* pd.json_normalize of one element of a list of records
NormalizeElement(e) == IF e.t = "dict" THEN json_normalize(e.f) ELSE <<>>

\* which branch of flatten_json the element takes
Branch(e) ==
    IF e.t = "dict" THEN "dict"
    ELSE IF ~IsListValue(e) THEN "other"
    ELSE IF Truth(e) = "raise" THEN "raise"
    ELSE IF Truth(e) = "true" /\ e.v[1].t = "dict" THEN "records"
    ELSE "other"

\* the frame json_data that flatten_json makes of one exploded value
FlatRows(c, e) ==
    IF Branch(e) = "dict" THEN <<PrefixRow(c, json_normalize(e.f))>>
    ELSE IF Branch(e) = "records"
         THEN [i \in 1..Len(e.v) |-> PrefixRow(c, NormalizeElement(e.v[i]))]
    ELSE IF e.t = "null" THEN << <<>> >>
    ELSE << [p \in {c} |-> e] >>

RECURSIVE FlatAll(_, _)
\* df_flat: the frames of all exploded rows, concatenated with ignore_index
FlatAll(c, ex) ==
    IF ex = <<>> THEN <<>>
    ELSE FlatAll(c, SubSeq(ex, 1, Len(ex) - 1)) \o FlatRows(c, ex[Len(ex)].elem)

Max(a, b) == IF a >= b THEN a ELSE b

\* flatten_json(df, column): rows is the returned table; raised when the
\* loop raises ValueError
flatten_json(df, c) ==
    LET ex == ExplodeRows(df, c)
        flat == FlatAll(c, ex)
    IN  IF \E j \in 1..Len(ex) : Branch(ex[j].elem) = "raise"
        THEN [raised |-> TRUE, rows |-> <<>>]
        ELSE [raised |-> FALSE,
              rows |-> [j \in 1..Max(Len(ex), Len(flat)) |->
                          (IF j <= Len(ex) THEN ex[j].sib ELSE <<>>)
                              @@ (IF j <= Len(flat) THEN flat[j] ELSE <<>>)]]

(***************************************************************************)
(* flatten_json applied to generated tables                                *)
(***************************************************************************)
MaxRows == 2        \* rows of a generated table

ColA == <<"a">>
ColB == <<"b">>

Rec1(x) == DictCell([c |-> IntCell(x)])

\* the values tried in the nested column
NestedValues ==
    { IntCell("7"),
      NullCell,
      PyList(<<>>),
      PyList(<<IntCell("1"), IntCell("2")>>),
      PyList(<<Rec1("1"), Rec1("2")>>),
      PyList(<<DictCell([c |-> IntCell("1"), d |-> DictCell([e |-> IntCell("2")])])>>),
      PyList(<<PyList(<<IntCell("1"), IntCell("2")>>), PyList(<<IntCell("3")>>)>>),
      PyList(<<PyList(<<Rec1("1"), Rec1("2")>>), PyList(<<Rec1("3")>>)>>),
      PyList(<<DictCell([c |-> PyList(<<IntCell("1"), IntCell("2")>>)])>>),
      Rec1("1"),
      NdArray(<<IntCell("1"), IntCell("2")>>),
      NdArray(<<Rec1("1"), Rec1("2")>>),
      NdArray(<<NdArray(<<IntCell("1"), IntCell("2")>>), NdArray(<<IntCell("3")>>)>>),
      NdArray(<<NdArray(<<Rec1("1")>>)>>) }

\* a row with its number in column a and the value in column b
MakeRow(i, v) ==
    IF v.t = "null" THEN [p \in {ColA} |-> IntCell(ToString(i))]
    ELSE [p \in {ColA, ColB} |-> IF p = ColA THEN IntCell(ToString(i)) ELSE v]

\* the tables of 1..n rows
TablesOf(n) ==
    UNION { { [i \in 1..m |-> MakeRow(i, vs[i])] : vs \in [1..m -> NestedValues] } :
            m \in 1..n }

InitFlattenJson ==
    /\ DriverIdle
    /\ op = "none"
    /\ arg \in TablesOf(MaxRows)
    /\ ret = <<>>

ApplyFlattenJson ==
    /\ op = "none"
    /\ op' = "flatten_json"
    /\ ret' = flatten_json(arg, ColB)
    /\ UNCHANGED <<arg, driverVars>>

NextFlattenJson == ApplyFlattenJson

SpecFlattenJson == InitFlattenJson /\ [][NextFlattenJson]_vars

(***************************************************************************)
(* recursively_flatten                                                     *)
(***************************************************************************)
MaxDepth == 2       \* largest depth argument tried

\* depth=None
NoDepth == -1

\* df.columns
Columns(df) == UNION { DOMAIN df[i] : i \in 1..Len(df) }

\* the columns in which some row holds a list or an array
ListColumns(df) ==
    { c \in Columns(df) : \E i \in 1..Len(df) : IsListValue(Cell(df[i], c)) }

RECURSIVE FlattenColumns(_, _)
\* for col in list_columns: df = flatten_json(df, col)
FlattenColumns(df, cols) ==
    IF cols = {} THEN [raised |-> FALSE, rows |-> df]
    ELSE LET c == CHOOSE x \in cols : TRUE
             r == flatten_json(df, c)
         IN  IF r.raised THEN r ELSE FlattenColumns(r.rows, cols \ {c})

\* (variant: recursion also allowed at current_depth = depth)
MayRecurseInclusive(depth, current_depth) ==
    depth = NoDepth \/ current_depth <= depth

\* depth is None or current_depth < depth
MayRecurse(depth, current_depth) ==
    depth = NoDepth \/ current_depth < depth

RECURSIVE recursively_flatten(_, _, _)
\* recursively_flatten(df, depth, current_depth); passes counts the calls
\* that had a list column to flatten
recursively_flatten(df, depth, current_depth) ==
    LET list_columns == ListColumns(df)
        r == FlattenColumns(df, list_columns)
        n == IF list_columns = {} THEN 0 ELSE 1
    IN  IF r.raised THEN [raised |-> TRUE, rows |-> <<>>, passes |-> n]
        ELSE IF MayRecurse(depth, current_depth) /\ ListColumns(r.rows) # {}
             THEN LET q == recursively_flatten(r.rows, depth, current_depth + 1)
                  IN  [q EXCEPT !.passes = @ + n]
        ELSE [raised |-> FALSE, rows |-> r.rows, passes |-> n]

DepthChoices == {NoDepth} \cup 0..MaxDepth

InitRecFlatten ==
    /\ DriverIdle
    /\ op = "none"
    /\ arg \in [df : TablesOf(MaxRows), depth : DepthChoices]
    /\ ret = <<>>

ApplyRecursivelyFlatten ==
    /\ op = "none"
    /\ op' = "recursively_flatten"
    /\ ret' = recursively_flatten(arg.df, arg.depth, 0)
    /\ UNCHANGED <<arg, driverVars>>

NextRecFlatten == ApplyRecursivelyFlatten

SpecRecFlatten == InitRecFlatten /\ [][NextRecFlatten]_vars

(***************************************************************************)
(* The merge: find_parquet_files, load_parquet_files_to_df,                *)
(* save_combined_table_to_disk, combine_parquet_files                      *)
(*                                                                         *)
(* The source directory is a tree: its own files combined_table.csv and    *)
(* combined_table.parquet, and one subdirectory per key holding            *)
(* data.parquet.  order is the order in which os.walk visits the           *)
(* subdirectories.                                                         *)
(***************************************************************************)
MaxMerges == 2      \* calls of combine_parquet_files in a behaviour

K31 == <<"2", "0", "2", "4", "0", "6", "3", "1">>

\* os.path.basename(signinlogs_dir)
RootName ==
    <<"i", "n", "s", "i", "g", "h", "t", "s", "-", "l", "o">>
        \o <<"g", "s", "-", "s", "i", "g", "n", "i", "n", "l", "o", "g", "s">>

SubDirs == {K18, K19, K31}

RECURSIVE ToArrays(_)
\* pd.read_parquet of a written value: every list comes back as an array
ToArrays(c) ==
    IF IsListValue(c) THEN NdArray([i \in 1..Len(c.v) |-> ToArrays(c.v[i])])
    ELSE IF c.t = "dict" THEN DictCell([k \in DOMAIN c.f |-> ToArrays(c.f[k])])
    ELSE c

read_parquet(rows) ==
    [i \in 1..Len(rows) |-> [c \in DOMAIN rows[i] |-> ToArrays(rows[i][c])]]

RECURSIVE WalkSubDirs(_, _)
\* the files os.walk yields below the root, directory by directory
WalkSubDirs(tree, order) ==
    IF order = <<>> THEN <<>>
    ELSE (IF tree.parquet[Head(order)].exists
          THEN << [d |-> Head(order), stem |-> "data", ext |-> ".parquet"] >>
          ELSE <<>>)
         \o WalkSubDirs(tree, Tail(order))

\* os.walk(parquet_dir): the root's files first
WalkFiles(tree) ==
    (IF tree.combined_csv.exists
     THEN << [d |-> RootName, stem |-> "combined_table", ext |-> ".csv"] >>
     ELSE <<>>)
    \o (IF tree.combined_parquet.exists
        THEN << [d |-> RootName, stem |-> "combined_table", ext |-> ".parquet"] >>
        ELSE <<>>)
    \o WalkSubDirs(tree, tree.order)

\* (variant: no validation of the bounds before the walk)
find_parquet_files_NoValidation(tree, s, e) ==
    [walked |-> TRUE,
     files |-> SelectSeq(WalkFiles(tree),
                  LAMBDA f : f.ext = ".parquet" /\ FindIncludes(f.d, s, e))]

\* (variant: the root's files are taken whatever the directory name)
find_parquet_files_AnyDir(tree, s, e) ==
    IF (s # <<>> /\ ~is_valid_date_format(s)) \/ (e # <<>> /\ ~is_valid_date_format(e))
    THEN [walked |-> FALSE, files |-> <<>>]
    ELSE [walked |-> TRUE,
          files |-> SelectSeq(WalkFiles(tree),
                       LAMBDA f : f.ext = ".parquet"
                                    /\ (f.d = RootName \/ FindIncludes(f.d, s, e)))]

\* find_parquet_files: the file list, and whether the directory was walked
find_parquet_files(tree, s, e) ==
    IF (s # <<>> /\ ~is_valid_date_format(s)) \/ (e # <<>> /\ ~is_valid_date_format(e))
    THEN [walked |-> FALSE, files |-> <<>>]
    ELSE [walked |-> TRUE,
          files |-> SelectSeq(WalkFiles(tree),
                       LAMBDA f : f.ext = ".parquet" /\ FindIncludes(f.d, s, e))]

\* the rows stored in a file of the tree
FileRows(tree, f) ==
    IF f.d = RootName THEN tree.combined_parquet.rows ELSE tree.parquet[f.d].rows

RECURSIVE ConcatFiles(_, _)
\* pd.concat([pd.read_parquet(file) for file in file_list], ignore_index=True)
ConcatFiles(tree, file_list) ==
    IF file_list = <<>> THEN <<>>
    ELSE read_parquet(FileRows(tree, Head(file_list)))
             \o ConcatFiles(tree, Tail(file_list))

\* (variant: only the first file is read)
load_parquet_files_to_df_First(tree, s, e) ==
    LET file_list == find_parquet_files(tree, s, e).files
    IN  IF file_list = <<>> THEN <<>>
        ELSE read_parquet(FileRows(tree, Head(file_list)))

\* load_parquet_files_to_df: an empty table when no file is found
load_parquet_files_to_df(tree, s, e) ==
    LET file_list == find_parquet_files(tree, s, e).files
    IN  IF file_list = <<>> THEN <<>>
        ELSE ConcatFiles(tree, file_list)

\* (variant: no test for an empty table)
df_empty_Never(df) == FALSE

\* df.empty
df_empty(df) == df = <<>>

\* save_combined_table_to_disk: to_csv, then to_parquet
save_combined_table_to_disk(tree, df) ==
    [tree EXCEPT !.combined_csv = File(CsvRows(df)),
                 !.combined_parquet = File(df)]

\* combine_parquet_files: the tree after the call and what the call did
combine_parquet_files(tree, s, e) ==
    LET found == find_parquet_files(tree, s, e)
        df == load_parquet_files_to_df(tree, s, e)
        flat == recursively_flatten(df, NoDepth, 0)
        seen == [file_list |-> found.files, walked |-> found.walked, loaded |-> df,
                 before_csv |-> tree.combined_csv,
                 before_parquet |-> tree.combined_parquet]
    IN  IF df_empty(df)
        THEN [tree |-> tree,
              out |-> seen @@ [wrote |-> FALSE, raised |-> FALSE]]
        ELSE IF flat.raised
        THEN [tree |-> tree,
              out |-> seen @@ [wrote |-> FALSE, raised |-> TRUE]]
        ELSE [tree |-> save_combined_table_to_disk(tree, flat.rows),
              out |-> seen @@ [wrote |-> TRUE, raised |-> FALSE]]

\* the tables a partition can hold
PartTables ==
    { <<>>,
      << [p \in {<<"id">>} |-> IntCell("1")] >>,
      << [p \in {<<"id">>, <<"tags">>} |->
            IF p = <<"id">> THEN IntCell("2")
            ELSE PyList(<<StrCell("x"), StrCell("y")>>)] >>,
      << [p \in {<<"id">>, ColB} |->
            IF p = <<"id">> THEN IntCell("3")
            ELSE PyList(<<Rec1("1"), Rec1("2")>>)] >>,
      << [p \in {<<"id">>, <<"p">>} |->
            IF p = <<"id">> THEN IntCell("4") ELSE Rec1("1")] >>,
      << [p \in {<<"id">>, ColB} |->
            IF p = <<"id">> THEN IntCell("5")
            ELSE PyList(<<PyList(<<IntCell("1"), IntCell("2")>>)>>)] >> }

\* a combined table left by an earlier merge
OldCombined == << [p \in {<<"id">>} |-> IntCell("9")] >>

MergeStarts == {<<>>, K19, <<"2", "0", "2", "4">>}
MergeEnds == {<<>>, K18, K31}

\* the orders in which os.walk can visit the subdirectories
WalkOrders == { q \in InjSeqs(SubDirs, 3) : Len(q) = 3 }

InitMerge ==
    /\ DriverIdle
    /\ op = "none"
    /\ \E pq \in [SubDirs -> {NoFile} \cup {File(t) : t \in PartTables}],
          old \in {NoFile, File(OldCombined)},
          order \in WalkOrders,
          s \in MergeStarts, e \in MergeEnds :
            arg = [tree |-> [parquet |-> pq, order |-> order,
                             combined_csv |-> old, combined_parquet |-> old],
                   s |-> s, e |-> e, n |-> 0]
    /\ ret = <<>>

Combine ==
    /\ arg.n < MaxMerges
    /\ LET r == combine_parquet_files(arg.tree, arg.s, arg.e)
       IN  /\ arg' = [arg EXCEPT !.tree = r.tree, !.n = @ + 1]
           /\ ret' = r.out
    /\ op' = "combine_parquet_files"
    /\ UNCHANGED driverVars

NextMerge == Combine

SpecMerge == InitMerge /\ [][NextMerge]_vars

(***************************************************************************)
(* Ingestion of one blob followed by find_parquet_files, same bounds       *)
(***************************************************************************)
\* the source directory after the driver handled one blob of the date: the
\* partition of the date is written iff the blob passed the filter
TreeAfterIngest(date, f) ==
    [parquet |-> [d \in {date} |->
                    IF f = "in" THEN File(<< [p \in {<<"id">>} |-> IntCell("1")] >>)
                    ELSE NoFile],
     order |-> <<date>>,
     combined_csv |-> NoFile,
     combined_parquet |-> NoFile]

\* a blob named after arg.k goes through extract_date_from_name and the
\* driver's filter; then find_parquet_files searches the directory
ApplyIngestThenFind ==
    /\ op = "none"
    /\ op' = "ingest_then_find"
    /\ LET date == extract_date_from_name(<<"t", "/">> \o DateSegment(arg.k) \o <<"/", "0">>)
           f == DriverFilter(date, arg.s, arg.e)
       IN  ret' = [key |-> date,
                   wrote |-> f = "in",
                   found |-> find_parquet_files(TreeAfterIngest(date, f), arg.s, arg.e).files]
    /\ UNCHANGED <<arg, driverVars>>

NextAgree == ApplyIngestThenFind

SpecAgree == InitFilter /\ [][NextAgree]_vars

(***************************************************************************)
(* Properties of flatten_json                                              *)
(***************************************************************************)
\* number of output rows the row is to give: the length of its list, one
\* row for a value that is no list or an empty list
Width(row) ==
    LET v == Cell(row, ColB)
    IN  IF IsListValue(v) /\ v.v # <<>> THEN Len(v.v) ELSE 1

RECURSIVE RowsBefore(_, _)
RowsBefore(df, i) == IF i = 1 THEN 0 ELSE RowsBefore(df, i - 1) + Width(df[i - 1])

\* the expansion of element e is on row r
ElementOnRow(e, r) ==
    IF e.t = "dict"
    THEN \A p \in Paths(e.f) : Cell(r, ColB \o p) = Lookup(e.f, p)
    ELSE IF IsListValue(e) /\ e.v # <<>> /\ e.v[1].t = "dict"
    THEN \A p \in Paths(e.v[1].f) : Cell(r, ColB \o p) = Lookup(e.v[1].f, p)
    ELSE Cell(r, ColB) = e

\* row i of the input is aligned in the output
Aligned(df, out, i) ==
    LET v == Cell(df[i], ColB)
        base == RowsBefore(df, i)
    IN  \A j \in 1..Width(df[i]) :
            /\ base + j <= Len(out)
            /\ Cell(out[base + j], ColA) = Cell(df[i], ColA)
            /\ (IsListValue(v) /\ v.v # <<>>) => ElementOnRow(v.v[j], out[base + j])

\* C11: flatten_json(df, C) gives, for a list of length k in column C of
\* row i, exactly k output rows, each with the sibling values of row i and
\* with the expansion of element j on row j, whatever the shape of the
\* elements (scalar, record, list of records, nested list).
C11_Alignment ==
    op = "flatten_json"
    => /\ ~ret.raised
       /\ Len(ret.rows) = RowsBefore(arg, Len(arg)) + Width(arg[Len(arg)])
       /\ \A i \in 1..Len(arg) : Aligned(arg, ret.rows, i)

(***************************************************************************)
(* Properties of recursively_flatten                                       *)
(***************************************************************************)
RECURSIVE NestingDepth(_)
\* levels of lists and records around the scalars of a value
NestingDepth(c) ==
    IF IsListValue(c)
    THEN 1 + (IF c.v = <<>> THEN 0
              ELSE LET ds == {NestingDepth(c.v[i]) : i \in 1..Len(c.v)}
                   IN  CHOOSE d \in ds : \A x \in ds : x <= d)
    ELSE IF c.t = "dict"
    THEN 1 + (IF DOMAIN c.f = {} THEN 0
              ELSE LET ds == {NestingDepth(c.f[k]) : k \in DOMAIN c.f}
                   IN  CHOOSE d \in ds : \A x \in ds : x <= d)
    ELSE 0

\* the nesting depth D of a table
TableDepth(df) ==
    LET ds == {0} \cup { NestingDepth(Cell(df[i], c)) : i \in 1..Len(df), c \in Columns(df) }
    IN  CHOOSE d \in ds : \A x \in ds : x <= d

\* the columns holding a list or a record in some row
ComplexColumns(df) ==
    { c \in Columns(df) :
        \E i \in 1..Len(df) : IsListValue(Cell(df[i], c)) \/ Cell(df[i], c).t = "dict" }

\* C12: for a table of nesting depth D, recursively_flatten with unbounded
\* depth terminates with a table that has no complex column, after at most
\* D passes.
C12_Termination ==
    (op = "recursively_flatten" /\ arg.depth = NoDepth)
    => /\ ~ret.raised
       /\ ComplexColumns(ret.rows) = {}
       /\ ret.passes <= TableDepth(arg.df)

\* C18 as stated: with a maximum depth d, at most d passes are applied.
C18_AsStated ==
    (op = "recursively_flatten" /\ arg.depth # NoDepth)
    => ret.passes <= arg.depth

\* C18 amended: with a maximum depth d, recursively_flatten recurses only
\* while its depth counter is below d, and the call at each counter value
\* 0..d applies one pass: at most d + 1 passes are applied, even if
\* list-valued columns remain.
C18_DepthBound ==
    (op = "recursively_flatten" /\ arg.depth # NoDepth)
    => ret.passes <= arg.depth + 1

C18_Witness ==
    /\ op = "recursively_flatten"
    /\ arg.depth = 0
    /\ ~ret.raised
    /\ ret.passes = 1
    /\ ListColumns(ret.rows) # {}

(***************************************************************************)
(* Properties of the merge                                                 *)
(***************************************************************************)
\* bound b is given and is not an 8-digit calendar date
Malformed(b) == b # <<>> /\ ~(EightDigits(b) /\ CalendarDate(b))

\* the date filter of the merge: the key is a calendar date within the
\* bounds, and no bound is malformed
PassesFilter(d) ==
    /\ ~Malformed(arg.s)
    /\ ~Malformed(arg.e)
    /\ EightDigits(d)
    /\ CalendarDate(d)
    /\ WithinBounds(d, arg.s, arg.e)

\* the keys of the durable partitions that pass the filter
Selected == { d \in SubDirs : arg.tree.parquet[d].exists /\ PassesFilter(d) }

RECURSIVE RowSum(_)
RowSum(S) ==
    IF S = {} THEN 0
    ELSE LET d == CHOOSE x \in S : TRUE
         IN  Len(arg.tree.parquet[d].rows) + RowSum(S \ {d})

\* C13: whenever combine_parquet_files writes a combined table, no column
\* of the written table holds a list or a record in any row, for every
\* input table, record-valued columns included.
C13_NoNested ==
    (op = "combine_parquet_files" /\ ret.wrote)
    => ComplexColumns(arg.tree.combined_parquet.rows) = {}

\* C14: when no durable partition passes the date filter, or the
\* concatenated table is empty, combine_parquet_files writes neither
\* combined_table.csv nor combined_table.parquet, leaves an existing
\* combined table as it was, and does not raise.
C14_EmptyInput ==
    (op = "combine_parquet_files" /\ RowSum(Selected) = 0)
    => /\ ~ret.wrote
       /\ ~ret.raised
       /\ arg.tree.combined_csv = ret.before_csv
       /\ arg.tree.combined_parquet = ret.before_parquet

C14_Witness ==
    /\ op = "combine_parquet_files"
    /\ Selected = {}
    /\ \E d \in SubDirs : arg.tree.parquet[d].exists /\ arg.tree.parquet[d].rows # <<>>
    /\ arg.tree.combined_parquet = File(OldCombined)

\* C15: when start_date or end_date is given and is not an 8-digit
\* calendar date, find_parquet_files returns an empty list without walking
\* the directory and without raising.
C15_FailFast ==
    (op = "combine_parquet_files" /\ (Malformed(arg.s) \/ Malformed(arg.e)))
    => /\ ret.file_list = <<>>
       /\ ~ret.walked
       /\ ~ret.raised

C15_Witness ==
    /\ op = "combine_parquet_files"
    /\ arg.s = <<>>
    /\ arg.e = K31
    /\ \A d \in SubDirs : arg.tree.parquet[d].exists
    /\ ret.file_list = <<>>

\* C16: the table load_parquet_files_to_df hands to the flattener has as
\* many rows as the durable partitions whose key passes the date filter
\* have together, and its columns are the union of their columns.
C16_Concat ==
    op = "combine_parquet_files"
    => /\ Len(ret.loaded) = RowSum(Selected)
       /\ Columns(ret.loaded) = UNION { Columns(arg.tree.parquet[d].rows) : d \in Selected }

C16_Witness ==
    /\ op = "combine_parquet_files"
    /\ arg.s = <<>>
    /\ arg.e = <<>>
    /\ Selected = {K18, K19}
    /\ Len(arg.tree.parquet[K18].rows) = 1
    /\ Len(arg.tree.parquet[K19].rows) = 1
    /\ Columns(arg.tree.parquet[K18].rows) # Columns(arg.tree.parquet[K19].rows)
    /\ Len(ret.loaded) = 2

\* C17: the combined_table files written by an earlier merge are never
\* found by find_parquet_files, so a second run of combine_parquet_files
\* over unchanged partitions writes the same combined table as the first.
C17_Fresh ==
    op = "combine_parquet_files"
    => /\ \A i \in 1..Len(ret.file_list) : ret.file_list[i].d # RootName
       /\ (arg.n >= 2 /\ ret.wrote)
            => /\ arg.tree.combined_parquet = ret.before_parquet
               /\ arg.tree.combined_csv = ret.before_csv

C17_Witness ==
    /\ op = "combine_parquet_files"
    /\ arg.n = 2
    /\ ret.wrote
    /\ ret.before_parquet.exists
    /\ Len(arg.tree.combined_parquet.rows) >= 2

(***************************************************************************)
(* Frame of the date filter, and agreement of ingestion and merge          *)
(***************************************************************************)
\* C19: a run with bounds [start_date, end_date] never creates, loads or
\* overwrites the durable partition of a key outside the bounds: no step
\* changes the files or the directory of such a key or opens its table, and
\* no blob of such a key is fetched.
C19_Frame ==
    [][ /\ \A k \in DateKeys :
            ~WithinBounds(k, start_date, end_date)
            => /\ parquet'[k] = parquet[k]
               /\ csv'[k] = csv[k]
               /\ (k \in dirs') <=> (k \in dirs)
               /\ cur_date' # k
        /\ (pc = "fetch" /\ CurDate \in DateKeys)
            => WithinBounds(CurDate, start_date, end_date) ]_vars

C19_Witness ==
    /\ pc = "done"
    /\ end_date = K18
    /\ \E i \in 1..Len(listing) : listing[i] = "B0"
    /\ parquet[K18].exists
    /\ ~parquet[K19].exists
    /\ K19 \notin dirs

\* C20: every durable partition that an ingestion run with bounds [s, e]
\* writes is found by find_parquet_files called on the same directory with
\* the same bounds, for every key extract_date_from_name can produce (the
\* bounds being absent or calendar dates).
C20_Agreement ==
    (op = "ingest_then_find" /\ ~Malformed(arg.s) /\ ~Malformed(arg.e) /\ ret.wrote)
    => \E i \in 1..Len(ret.found) : ret.found[i].d = ret.key

(***************************************************************************)
(* Rows kept by the flattener                                              *)
(***************************************************************************)
\* every row of table df has a row of table out that carries its value of
\* column a, and out has at least as many rows as df
RowsKept(df, out) ==
    /\ Len(out) >= Len(df)
    /\ \A i \in 1..Len(df) :
         \E j \in 1..Len(out) : Cell(out[j], ColA) = Cell(df[i], ColA)

\* C21: flattening never loses a row.  For every input table, flatten_json
\* and recursively_flatten return a table in which every input row has at
\* least one row (a row whose list is empty or null is kept as one row), so
\* the output has at least as many rows as the input.
C21_NoRowLost ==
    /\ op = "flatten_json" => (~ret.raised /\ RowsKept(arg, ret.rows))
    /\ op = "recursively_flatten" => (~ret.raised /\ RowsKept(arg.df, ret.rows))

====
